---- MODULE Spec2Model ----
(***************************************************************************)
(* Model of mlx_lm_wrapper.py: the management API that supervises one      *)
(* always-on autocomplete server and one switchable dynamic server.        *)
(*                                                                         *)
(* Request handlers run concurrently (one thread per request); every       *)
(* statement of switch_model, start_mlx_server and kill_process that       *)
(* reads or writes shared state, sleeps, or talks to the OS is a step of   *)
(* its own, so that /status reads and process exits can interleave with    *)
(* it exactly where they can in the program.                               *)
(***************************************************************************)
EXTENDS Integers, Sequences, FiniteSets, TLC

\* ---------------------------------------------------------------- bounds
\* Total number of /load_model requests in a behaviour (each spawns at most
\* one process, so it also bounds the process identifiers in use).
MaxCalls == 2
\* Number of concurrent /load_model handler threads.
NumSwitchers == 2
\* Readiness attempts per start where the whole API is explored: the loop
\* is the program's, with its counter and guards, over a budget shorter
\* than max_retries.
ShortRetries == 2
\* Longest model name, in "/"-separated segments, that is normalized.
MaxLen == 4
\* Number of wrapper availability checks the routing hook makes.
MaxChecks == 5

\* ------------------------------------------------------- program constants
\* start_mlx_server: max_retries = 60
max_retries == 60
\* kill_process: `for _ in range(5)` polls between SIGTERM and SIGKILL.
GracePolls == 5
\* mlx_precall_hook.py: consecutive failures before terminating.
WRAPPER_MAX_FAILURES == 3

\* ------------------------------------------------------------ identifiers
\* A model identifier is a string; it is kept as its "/"-separated segments
\* so that prefix tests can be computed.  None is Python's None.
None == [kind |-> "none", segs |-> <<>>]
Str(segs) == [kind |-> "str", segs |-> segs]
\* A JSON value that is not a string, e.g. the number in {"model": 5}.
NotAString == [kind |-> "number", segs |-> <<>>]

Models == {Str(<<"model-a">>), Str(<<"model-b">>)}

\* Two spellings of one model, and a number.
NameModels == {Str(<<"model-a">>), Str(<<"mlx-community", "model-a">>),
               NotAString}

\* model_name.startswith(prefix + "/"), prefix a sequence of segments.
StartsWith(segs, prefix) ==
    /\ Len(segs) > Len(prefix)
    /\ SubSeq(segs, 1, Len(prefix)) = prefix

\* The model name start_mlx_server passes to mlx_lm.server: "openai/" is
\* removed from "openai/mlx-community/...", "mlx-community/" is put before
\* a name that does not start with it.
Normalize(m) ==
    IF StartsWith(m.segs, <<"mlx-community">>) THEN m
    ELSE IF StartsWith(m.segs, <<"openai", "mlx-community">>)
    THEN Str(Tail(m.segs))
    ELSE Str(<<"mlx-community">> \o m.segs)

\* JSON bodies of POST /load_model, by what load_model asks of them:
\*   empty     `not data`: no body, {} or another falsy value
\*   inModel   `"model" in data`
\*   isObject  data is a JSON object, so that data["model"] is a lookup
\* EmptyBody is {}, OtherBody {"name": ...}, ArrayBody the JSON array
\* ["model"], ModelBody(m) {"model": m}.
EmptyBody == [empty |-> TRUE, isObject |-> TRUE, inModel |-> FALSE, model |-> None]
OtherBody == [empty |-> FALSE, isObject |-> TRUE, inModel |-> FALSE, model |-> None]
ArrayBody == [empty |-> FALSE, isObject |-> FALSE, inModel |-> TRUE, model |-> None]
ModelBody(m) == [empty |-> FALSE, isObject |-> TRUE, inModel |-> TRUE, model |-> m]
Bodies == {EmptyBody, OtherBody, ArrayBody} \cup {ModelBody(m) : m \in Models}
NameBodies == {ModelBody(m) : m \in NameModels}

\* ---------------------------------------------------------------- threads
Switchers == 1..NumSwitchers
NoThread == 0
\* The main thread: it runs app.run() and, at exit, cleanup().
Main == NumSwitchers + 1
Threads == Switchers \cup {Main}

\* -------------------------------------------------------------- processes
\* Process 1 is the autocomplete server started by start_servers(); the
\* dynamic servers get the following identifiers.  NoProc is a None handle.
NoProc == 0
AutoPid == 1
Pids == 1..(MaxCalls + 1)
DynPids == Pids \ {AutoPid}

VARIABLES
    current_model,        \* global current_model
    model_process,        \* global model_process (a pid or NoProc)
    autocomplete_process, \* global autocomplete_process
    model_lock,           \* holder of model_lock, or NoThread
    pstate,               \* OS: pid -> "unborn" | "starting" | "serving" | "dead"
    sigs,                 \* OS: pid -> sequence of signals delivered to its group
    nextPid,              \* OS: next process identifier
    th,                   \* per thread: its frame (see IdleFrame)
    ncalls,               \* number of /load_model requests received
    last,                 \* the last /load_model request answered
    lastOk,               \* model of the last switch that returned success
    setup,                \* a run: the bodies its clients send (bodies) and
                          \* the readiness attempts per start (retries)
    st,                   \* the /status thread: its frame (see IdleStatus)
    WRAPPER_AVAILABILITY_CHECK_COUNT,  \* the routing hook's global counter
    hook,                 \* the routing hook: its position (pc) and the
                          \* outcomes of its availability checks (log)
    norm                  \* a model name under normalization (see NoName)

osVars == <<pstate, sigs, nextPid>>
globalVars == <<current_model, model_process, autocomplete_process, model_lock>>
\* What no handler of the wrapper writes.
sideVars == <<setup, WRAPPER_AVAILABILITY_CHECK_COUNT, hook, norm>>
switchVars == <<th, ncalls, last, lastOk, sideVars>>
statusVars == <<st>>
vars == <<globalVars, osVars, switchVars, statusVars>>
\* What the routing hook and the normalization do not write.
wrapperVars == <<globalVars, osVars, th, ncalls, last, lastOk, setup, st>>

\* The frame of a thread:
\*   pc      position in load_model / switch_model / start_mlx_server /
\*           kill_process, or in __main__ / cleanup for the main thread
\*   body    request.json                 (new_model is body.model)
\*   process, retries                     locals of start_mlx_server
\*   kproc, kpolls, kret                  kill_process: argument, grace-loop turns
\*                                        done, call site ("stop" | "timeout" |
\*                                        "cleanup_model" | "cleanup_auto")
\*   prior   current_model when the gate was taken
\*   stopped the process handed to kill_process by switch_model
\*   denied  a killpg of this request raised PermissionError (it is logged)
IdleFrame ==
    [pc |-> "idle", body |-> EmptyBody, process |-> NoProc, retries |-> 0,
     kproc |-> NoProc, kpolls |-> 0, kret |-> "none", prior |-> None,
     stopped |-> NoProc, denied |-> FALSE]

\* The main thread inside app.run().
MainFrame == [IdleFrame EXCEPT !.pc = "serve"]

\* A thread of a wrapper process that has exited.
Gone == [IdleFrame EXCEPT !.pc = "gone"]

\* The last /load_model request answered: its body, current_model when it
\* took the gate, the process it launched, switch_model's result (Switched,
\* AlreadyRunning, Failed; "none" when switch_model was not called) and the
\* HTTP status; msg is the message of the answer ("running", "switched",
\* or what the failure text reports: "launch", "died", "timeout", "error");
\* denied tells that a killpg of the request raised PermissionError.
NoCall == [body |-> EmptyBody, prior |-> None, process |-> NoProc,
           result |-> "none", resp |-> 0, msg |-> "none", denied |-> FALSE]

\* The frame of the /status handler thread:
\*   pc                                   position in status()
\*   autocomplete_status, dynamic_status  its locals
\*   loading   a switch was loading when dynamic_status was computed
IdleStatus == [pc |-> "idle", autocomplete_status |-> "stopped",
               dynamic_status |-> "stopped", loading |-> FALSE]

\* ------------------------------------------------------------- OS helpers
\* process.poll() is None
Alive(p) == p # NoProc /\ pstate[p] \in {"starting", "serving"}

\* Some live dynamic server is listening on the dynamic port.
DynListening == \E p \in DynPids : pstate[p] = "serving"

\* The routing hook between two requests; no availability check made yet.
IdleHook == [pc |-> "idle", log |-> <<>>]

\* A model name under normalization: the name given (input), the name
\* after n passes through the normalization of start_mlx_server (name).
NoName == [input |-> None, name |-> None, n |-> 0]

\* The wrapper as start_servers() leaves it.
Wrapper(bodies, retries) ==
    /\ setup = [bodies |-> bodies, retries |-> retries]
    /\ current_model = None
    /\ model_process = NoProc
    /\ autocomplete_process = AutoPid
    /\ model_lock = NoThread
    /\ pstate = [p \in Pids |-> IF p = AutoPid THEN "serving" ELSE "unborn"]
    /\ sigs = [p \in Pids |-> <<>>]
    /\ nextPid = AutoPid + 1
    /\ th = [t \in Threads |-> IF t = Main THEN MainFrame ELSE IdleFrame]
    /\ ncalls = 0
    /\ last = NoCall
    /\ lastOk = None
    /\ st = IdleStatus

Start(bodies, retries) ==
    /\ Wrapper(bodies, retries)
    /\ WRAPPER_AVAILABILITY_CHECK_COUNT = 0
    /\ hook = IdleHook
    /\ norm = NoName

Init == Start(Bodies, ShortRetries)

\* Clients that name one model in two spellings, or send a number.
InitNames == Start(NameBodies, ShortRetries)

\* ------------------------------------------------- environment (the OS)
\* A starting server finishes loading and binds the dynamic port; the
\* port can be bound by one process at a time.
ProcBind(p) ==
    /\ pstate[p] = "starting"
    /\ ~DynListening
    /\ pstate' = [pstate EXCEPT ![p] = "serving"]
    /\ UNCHANGED <<sigs, nextPid, globalVars, switchVars, statusVars>>

\* A live process exits: on its own, on an error (e.g. the port is taken),
\* or in reaction to a SIGTERM it received.
ProcExit(p) ==
    /\ Alive(p)
    /\ pstate' = [pstate EXCEPT ![p] = "dead"]
    /\ UNCHANGED <<sigs, nextPid, globalVars, switchVars, statusVars>>

\* --------------------------------------------------- control flow helpers
\* The thread moves on inside switch_model, keeping the gate.
Goto(t, f) ==
    /\ th' = [th EXCEPT ![t] = f]
    /\ UNCHANGED <<model_lock, last, lastOk, sideVars>>

At(t, l) == [th[t] EXCEPT !.pc = l]

\* switch_model returns (leaving `with model_lock`) and load_model answers:
\* 200 for (True, message), 500 for (False, message).
Answer(t, res, msg, denied) ==
    /\ th' = [th EXCEPT ![t] = IdleFrame]
    /\ model_lock' = NoThread
    /\ last' = [body |-> th[t].body, prior |-> th[t].prior,
                process |-> th[t].process, result |-> res,
                resp |-> IF res = "Failed" THEN 500 ELSE 200, msg |-> msg,
                denied |-> denied]
    /\ lastOk' = IF res = "Failed" THEN lastOk ELSE th[t].body.model
    /\ UNCHANGED sideVars

Return(t, res, msg) == Answer(t, res, msg, th[t].denied)

\* `except Exception as e: return False, f"Failed to start model: {e}"`
Failed(t, e) == Return(t, "Failed", e)

\* The wrapper process ends, and all its threads with it.  `denied` tells
\* that a killpg of cleanup raised PermissionError.
Exit(denied) ==
    /\ th' = [t \in Threads |->
                IF t = Main THEN [Gone EXCEPT !.denied = denied] ELSE Gone]
    /\ UNCHANGED <<model_lock, last, lastOk, sideVars>>

\* kill_process returns to its call site: the stop in switch_model, the
\* timeout of start_mlx_server, which then raises TimeoutError, or one of
\* the two calls of cleanup, after the second of which the process ends.
\* `denied` tells that it returns from `except ... PermissionError`, where
\* it logs a warning.
KillDone(t, denied) ==
    CASE th[t].kret = "stop" ->
           Goto(t, [At(t, "clear_proc") EXCEPT !.kproc = NoProc, !.kpolls = 0,
                                               !.kret = "none",
                                               !.denied = denied])
      [] th[t].kret = "timeout" ->
           Answer(t, "Failed", "timeout", th[t].denied \/ denied)
      [] th[t].kret = "cleanup_model" ->
           Goto(t, [At(t, "c_auto") EXCEPT !.kproc = NoProc, !.kpolls = 0,
                                           !.kret = "none",
                                           !.denied = denied])
      [] th[t].kret = "cleanup_auto" -> Exit(th[t].denied \/ denied)

\* ------------------------------------------------------------ /load_model
\* data = request.json
Receive(t, b) ==
    /\ th[Main].pc = "serve"
    /\ th[t].pc = "idle"
    /\ ncalls < MaxCalls
    /\ b \in setup.bodies
    /\ th' = [th EXCEPT ![t] = [IdleFrame EXCEPT !.pc = "parse", !.body = b]]
    /\ ncalls' = ncalls + 1
    /\ UNCHANGED <<last, lastOk, sideVars, globalVars, osVars, statusVars>>

\* not data or "model" not in data
MissingModel(b) == b.empty \/ ~b.inModel

\* if <missing>: return jsonify({"error": ...}), 400
\* success, message = switch_model(data["model"])
\* data["model"] on a body that is not an object raises TypeError, which
\* nothing catches: the framework answers 500.
Parse(t) ==
    /\ th[t].pc = "parse"
    /\ IF MissingModel(th[t].body)
       THEN /\ th' = [th EXCEPT ![t] = IdleFrame]
            /\ last' = [NoCall EXCEPT !.body = th[t].body, !.resp = 400]
       ELSE IF ~th[t].body.isObject
       THEN /\ th' = [th EXCEPT ![t] = IdleFrame]
            /\ last' = [NoCall EXCEPT !.body = th[t].body, !.resp = 500]
       ELSE /\ th' = [th EXCEPT ![t] = At(t, "wait_lock")]
            /\ UNCHANGED last
    /\ UNCHANGED <<ncalls, lastOk, sideVars, globalVars, osVars, statusVars>>

\* ----------------------------------------------------------- switch_model
\* Acquire that does not wait for the gate to be free.
Acquire_NoGate(t) ==
    /\ th[t].pc = "wait_lock"
    /\ model_lock' = t
    /\ th' = [th EXCEPT ![t] = [At(t, "check") EXCEPT !.prior = current_model]]
    /\ UNCHANGED <<current_model, model_process, autocomplete_process, ncalls,
                   last, lastOk, sideVars, osVars, statusVars>>

\* with model_lock:
Acquire(t) ==
    /\ th[t].pc = "wait_lock"
    /\ model_lock = NoThread
    /\ model_lock' = t
    /\ th' = [th EXCEPT ![t] = [At(t, "check") EXCEPT !.prior = current_model]]
    /\ UNCHANGED <<current_model, model_process, autocomplete_process, ncalls,
                   last, lastOk, sideVars, osVars, statusVars>>

\* AlreadyRunning with the liveness test inverted (poll() is not None).
AlreadyRunning_PollInverted(new_model) ==
    /\ current_model = new_model
    /\ model_process # NoProc
    /\ ~Alive(model_process)

\* current_model == new_model and model_process and model_process.poll() is None
AlreadyRunning(new_model) ==
    /\ current_model = new_model
    /\ model_process # NoProc
    /\ Alive(model_process)

\* Check that goes on to the launch without stopping the recorded process.
Check_SkipsStop(t) ==
    /\ th[t].pc = "check"
    /\ IF AlreadyRunning(th[t].body.model)
       THEN Return(t, "AlreadyRunning", "running")
       ELSE IF model_process # NoProc
       THEN Goto(t, [At(t, "clear_proc") EXCEPT !.stopped = model_process])
       ELSE Goto(t, At(t, "launch"))
    /\ UNCHANGED <<current_model, model_process, autocomplete_process, ncalls,
                   osVars, statusVars>>

\* The test for the running model, then `if model_process is not None:
\* kill_process(model_process)`.
Check(t) ==
    /\ th[t].pc = "check"
    /\ IF AlreadyRunning(th[t].body.model)
       THEN Return(t, "AlreadyRunning", "running")
       ELSE IF model_process # NoProc
       THEN Goto(t, [At(t, "k_entry") EXCEPT !.kproc = model_process,
                                             !.kret = "stop",
                                             !.stopped = model_process])
       ELSE Goto(t, At(t, "launch"))
    /\ UNCHANGED <<current_model, model_process, autocomplete_process, ncalls,
                   osVars, statusVars>>

\* model_process = None
ClearProc(t) ==
    /\ th[t].pc = "clear_proc"
    /\ model_process' = NoProc
    /\ Goto(t, At(t, "clear_model"))
    /\ UNCHANGED <<current_model, autocomplete_process, ncalls, osVars,
                   statusVars>>

\* ClearModel that records the requested model before it is started.
ClearModel_SetsNew(t) ==
    /\ th[t].pc = "clear_model"
    /\ current_model' = th[t].body.model
    /\ Goto(t, At(t, "launch"))
    /\ UNCHANGED <<model_process, autocomplete_process, ncalls, osVars,
                   statusVars>>

\* current_model = None
ClearModel(t) ==
    /\ th[t].pc = "clear_model"
    /\ current_model' = None
    /\ Goto(t, At(t, "launch"))
    /\ UNCHANGED <<model_process, autocomplete_process, ncalls, osVars,
                   statusVars>>

\* model_process = start_mlx_server(...)   (the assignment)
SetProc(t) ==
    /\ th[t].pc = "set_proc"
    /\ model_process' = th[t].process
    /\ Goto(t, At(t, "set_model"))
    /\ UNCHANGED <<current_model, autocomplete_process, ncalls, osVars,
                   statusVars>>

\* current_model = new_model; return True, "Model switched successfully"
SetModel(t) ==
    /\ th[t].pc = "set_model"
    /\ current_model' = th[t].body.model
    /\ Return(t, "Switched", "switched")
    /\ UNCHANGED <<model_process, autocomplete_process, ncalls, osVars,
                   statusVars>>

\* ------------------------------------------------------- start_mlx_server
\* Launch whose AttributeError is not caught by switch_model: the framework
\* answers 500.
Launch_IdEscapes(t) ==
    /\ th[t].pc = "launch"
    /\ IF th[t].body.model.kind # "str"
       THEN /\ th' = [th EXCEPT ![t] = IdleFrame]
            /\ model_lock' = NoThread
            /\ last' = [NoCall EXCEPT !.body = th[t].body, !.resp = 500]
            /\ UNCHANGED <<lastOk, sideVars, pstate, nextPid>>
       ELSE \/ /\ pstate' = [pstate EXCEPT ![nextPid] = "starting"]
               /\ nextPid' = nextPid + 1
               /\ Goto(t, [At(t, "probe") EXCEPT !.process = nextPid,
                                                 !.retries = 0])
            \/ /\ Failed(t, "launch")
               /\ UNCHANGED <<pstate, nextPid>>
    /\ UNCHANGED <<current_model, model_process, autocomplete_process, sigs, ncalls, statusVars>>

\* model_name.startswith(...) raises AttributeError when the name is not a
\* string.  Then subprocess.Popen(cmd, ..., preexec_fn=os.setsid): a new
\* process in its own group, or an OSError when the executable cannot be
\* spawned.
Launch(t) ==
    /\ th[t].pc = "launch"
    /\ IF th[t].body.model.kind # "str"
       THEN /\ Failed(t, "error")
            /\ UNCHANGED <<pstate, nextPid>>
       ELSE \/ /\ pstate' = [pstate EXCEPT ![nextPid] = "starting"]
               /\ nextPid' = nextPid + 1
               /\ Goto(t, [At(t, "probe") EXCEPT !.process = nextPid,
                                                 !.retries = 0])
            \/ /\ Failed(t, "launch")
               /\ UNCHANGED <<pstate, nextPid>>
    /\ UNCHANGED <<current_model, model_process, autocomplete_process, sigs, ncalls, statusVars>>

\* What requests.get(".../v1/models") can yield on the dynamic port: a
\* response needs a listener; a refused or reset connection is always
\* possible; "error" is any exception other than ConnectionError; "silent"
\* is a listener that accepts the connection and sends nothing (the call
\* has no timeout).
GetOutcomes ==
    IF DynListening
    THEN {"200", "non200", "ConnectionError", "error", "silent"}
    ELSE {"ConnectionError"}

\* Probe that raises TimeoutError without calling kill_process.
Probe_TimeoutNoKill(t) ==
    /\ th[t].pc = "probe"
    /\ IF th[t].retries < setup.retries
       THEN \E o \in GetOutcomes :
              CASE o = "200" -> Goto(t, At(t, "set_proc"))
                [] o = "error" -> Failed(t, "error")
                [] o = "silent" -> Goto(t, At(t, "get_blocked"))
                [] OTHER -> Goto(t, [At(t, "pollcheck") EXCEPT
                                        !.retries = th[t].retries + 1])
       ELSE Failed(t, "timeout")
    /\ UNCHANGED <<current_model, model_process, autocomplete_process, ncalls, osVars, statusVars>>

\* One turn of `while retries < max_retries`, up to time.sleep(1); when the
\* loop ends, the timeout branch calls kill_process(process).
Probe(t) ==
    /\ th[t].pc = "probe"
    /\ IF th[t].retries < setup.retries
       THEN \E o \in GetOutcomes :
              CASE o = "200" -> Goto(t, At(t, "set_proc"))
                [] o = "error" -> Failed(t, "error")
                [] o = "silent" -> Goto(t, At(t, "get_blocked"))
                [] OTHER -> Goto(t, [At(t, "pollcheck") EXCEPT
                                        !.retries = th[t].retries + 1])
       ELSE Goto(t, [At(t, "k_entry") EXCEPT !.kproc = th[t].process,
                                             !.kret = "timeout"])
    /\ UNCHANGED <<current_model, model_process, autocomplete_process, ncalls, osVars, statusVars>>

\* requests.get() waiting for a response: it returns only when the
\* connection breaks, which the listener's exit brings about, and then with
\* ConnectionError.
GetBlocked(t) ==
    /\ th[t].pc = "get_blocked"
    /\ ~DynListening
    /\ Goto(t, [At(t, "pollcheck") EXCEPT !.retries = th[t].retries + 1])
    /\ UNCHANGED <<current_model, model_process, autocomplete_process, ncalls, osVars, statusVars>>

\* if process.poll() is not None: raise RuntimeError
PollCheck(t) ==
    /\ th[t].pc = "pollcheck"
    /\ IF Alive(th[t].process) THEN Goto(t, At(t, "probe"))
                               ELSE Failed(t, "died")
    /\ UNCHANGED <<current_model, model_process, autocomplete_process, ncalls, osVars, statusVars>>

\* ----------------------------------------------------------- kill_process
\* KillEntry that returns early for an absent handle only.
KillEntry_NoPoll(t) ==
    /\ th[t].pc = "k_entry"
    /\ IF th[t].kproc = NoProc
       THEN KillDone(t, FALSE)
       ELSE Goto(t, At(t, "k_term"))
    /\ UNCHANGED <<current_model, model_process, autocomplete_process, ncalls, osVars, statusVars>>

\* if process is None or process.poll() is not None: return
KillEntry(t) ==
    /\ th[t].pc = "k_entry"
    /\ IF th[t].kproc = NoProc \/ ~Alive(th[t].kproc)
       THEN KillDone(t, FALSE)
       ELSE Goto(t, At(t, "k_term"))
    /\ UNCHANGED <<current_model, model_process, autocomplete_process, ncalls, osVars, statusVars>>

\* KillTerm whose PermissionError is not caught: the request fails.
KillTerm_DeniedRaises(t) ==
    /\ th[t].pc = "k_term"
    /\ \/ /\ sigs' = [sigs EXCEPT ![th[t].kproc] = Append(@, "TERM")]
          /\ Goto(t, [At(t, "k_wait") EXCEPT !.kpolls = 0])
       \/ /\ Failed(t, "error")
          /\ UNCHANGED sigs
       \/ /\ ~Alive(th[t].kproc)
          /\ KillDone(t, FALSE)
          /\ UNCHANGED sigs
    /\ UNCHANGED <<current_model, model_process, autocomplete_process, ncalls, pstate, nextPid, statusVars>>

\* pgid = os.getpgid(pid); os.killpg(pgid, SIGTERM).  The signal is
\* delivered, or the call raises PermissionError, or (the process being
\* gone by now) ProcessLookupError; both are caught and logged.
KillTerm(t) ==
    /\ th[t].pc = "k_term"
    /\ \/ /\ sigs' = [sigs EXCEPT ![th[t].kproc] = Append(@, "TERM")]
          /\ Goto(t, [At(t, "k_wait") EXCEPT !.kpolls = 0])
       \/ /\ KillDone(t, TRUE)                    \* PermissionError
          /\ UNCHANGED sigs
       \/ /\ ~Alive(th[t].kproc)                  \* ProcessLookupError
          /\ KillDone(t, FALSE)
          /\ UNCHANGED sigs
    /\ UNCHANGED <<current_model, model_process, autocomplete_process, ncalls, pstate, nextPid, statusVars>>

\* KillWait that goes on to SIGKILL after the first poll.
KillWait_NoGrace(t) ==
    /\ th[t].pc = "k_wait"
    /\ IF ~Alive(th[t].kproc)
       THEN KillDone(t, FALSE)
       ELSE Goto(t, [th[t] EXCEPT !.kpolls = @ + 1, !.pc = "k_force"])
    /\ UNCHANGED <<current_model, model_process, autocomplete_process, ncalls, osVars, statusVars>>

\* for _ in range(5): if process.poll() is not None: return; time.sleep(1)
KillWait(t) ==
    /\ th[t].pc = "k_wait"
    /\ IF ~Alive(th[t].kproc)
       THEN KillDone(t, FALSE)
       ELSE Goto(t, [th[t] EXCEPT
                       !.kpolls = @ + 1,
                       !.pc = IF th[t].kpolls + 1 = GracePolls
                              THEN "k_force" ELSE "k_wait"])
    /\ UNCHANGED <<current_model, model_process, autocomplete_process, ncalls, osVars, statusVars>>

\* if process.poll() is None: os.killpg(pgid, SIGKILL).  SIGKILL cannot be
\* ignored: once delivered the group is dead.  PermissionError is caught.
KillForce(t) ==
    /\ th[t].pc = "k_force"
    /\ \/ /\ Alive(th[t].kproc)
          /\ sigs' = [sigs EXCEPT ![th[t].kproc] = Append(@, "KILL")]
          /\ pstate' = [pstate EXCEPT ![th[t].kproc] = "dead"]
          /\ KillDone(t, FALSE)
       \/ /\ Alive(th[t].kproc)                   \* PermissionError
          /\ UNCHANGED <<sigs, pstate>>
          /\ KillDone(t, TRUE)
       \/ /\ ~Alive(th[t].kproc)
          /\ UNCHANGED <<sigs, pstate>>
          /\ KillDone(t, FALSE)
    /\ UNCHANGED <<current_model, model_process, autocomplete_process, ncalls, nextPid, statusVars>>

\* ---------------------------------------------------------------- /status
\* The switch has stopped the old model and launched the new one, which is
\* not ready yet.
Loading == \E t \in Switchers : th[t].pc \in {"probe", "get_blocked", "pollcheck"}

\* Another request is waiting for the gate held by a switch.
GateQueued ==
    /\ model_lock # NoThread
    /\ \E t \in Switchers : th[t].pc = "wait_lock"

\* "running" if (process and process.poll() is None) else "stopped"
StatusOf(p) == IF p # NoProc /\ Alive(p) THEN "running" ELSE "stopped"

\* autocomplete_status = ...
StatusAuto ==
    /\ st.pc = "idle"
    /\ st' = [st EXCEPT !.pc = "dyn",
                        !.autocomplete_status = StatusOf(autocomplete_process)]
    /\ UNCHANGED <<globalVars, osVars, switchVars>>

\* StatusDyn that reads model_process under the gate.
StatusDyn_Locked ==
    /\ st.pc = "dyn"
    /\ model_lock = NoThread
    /\ st' = [st EXCEPT !.pc = "reply",
                        !.dynamic_status = StatusOf(model_process),
                        !.loading = Loading]
    /\ UNCHANGED <<globalVars, osVars, switchVars>>

\* dynamic_status = ...
StatusDyn ==
    /\ st.pc = "dyn"
    /\ st' = [st EXCEPT !.pc = "reply",
                        !.dynamic_status = StatusOf(model_process),
                        !.loading = Loading]
    /\ UNCHANGED <<globalVars, osVars, switchVars>>

\* The JSON that `return jsonify({...})` builds: the two statuses computed
\* before, and current_model as it is now.
Snapshot ==
    [autocomplete |-> [status |-> st.autocomplete_status],
     dynamic |-> [status |-> st.dynamic_status, model |-> current_model]]

\* return jsonify(...): the thread answers Snapshot and is done.
StatusReply ==
    /\ st.pc = "reply"
    /\ st' = IdleStatus
    /\ UNCHANGED <<globalVars, osVars, switchVars>>

\* ---------------------------------------------------------------- shutdown
\* app.run() returns (KeyboardInterrupt on Ctrl-C): the interpreter runs the
\* atexit handler, cleanup(), in the main thread; the handler threads are
\* daemon threads and go on until the process ends.
Interrupt ==
    /\ th[Main].pc = "serve"
    /\ Goto(Main, At(Main, "c_model"))
    /\ UNCHANGED <<current_model, model_process, autocomplete_process, ncalls, osVars, statusVars>>

\* The wrapper is ended by a signal it does not handle (SIGTERM, SIGKILL):
\* atexit handlers are not run.
Terminated ==
    /\ th[Main].pc # "gone"
    /\ Exit(FALSE)
    /\ UNCHANGED <<current_model, model_process, autocomplete_process, ncalls, osVars, statusVars>>

\* kill_process(model_process)
CleanupModel ==
    /\ th[Main].pc = "c_model"
    /\ Goto(Main, [At(Main, "k_entry") EXCEPT !.kproc = model_process,
                                              !.kret = "cleanup_model"])
    /\ UNCHANGED <<current_model, model_process, autocomplete_process, ncalls, osVars, statusVars>>

\* kill_process(autocomplete_process)
CleanupAuto ==
    /\ th[Main].pc = "c_auto"
    /\ Goto(Main, [At(Main, "k_entry") EXCEPT !.kproc = autocomplete_process,
                                              !.kret = "cleanup_auto"])
    /\ UNCHANGED <<current_model, model_process, autocomplete_process, ncalls, osVars, statusVars>>

\* ---------------------------------------------------------- specification
Next ==
    \/ \E p \in DynPids : ProcBind(p)
    \/ \E p \in Pids : ProcExit(p)
    \/ \E t \in Switchers, b \in Bodies \cup NameBodies : Receive(t, b)
    \/ \E t \in Switchers : Parse(t)
    \/ \E t \in Switchers : Acquire(t)
    \/ \E t \in Switchers : Check(t)
    \/ \E t \in Switchers : ClearProc(t)
    \/ \E t \in Switchers : ClearModel(t)
    \/ \E t \in Switchers : Launch(t)
    \/ \E t \in Switchers : Probe(t)
    \/ \E t \in Switchers : GetBlocked(t)
    \/ \E t \in Switchers : PollCheck(t)
    \/ \E t \in Switchers : SetProc(t)
    \/ \E t \in Switchers : SetModel(t)
    \/ \E t \in Switchers : KillEntry(t)
    \/ \E t \in Switchers : KillTerm(t)
    \/ \E t \in Switchers : KillWait(t)
    \/ \E t \in Switchers : KillForce(t)
    \/ StatusAuto
    \/ StatusDyn
    \/ StatusReply

Spec == Init /\ [][Next]_vars

SpecNames == InitNames /\ [][Next]_vars

\* The wrapper with its shutdown: the /load_model handlers, the OS, and the
\* main thread, which runs kill_process as well.  The clients ask for one
\* model.
InitShutdown == Start({ModelBody(Str(<<"model-a">>))}, ShortRetries)

NextShutdown ==
    \/ \E p \in DynPids : ProcBind(p)
    \/ \E p \in Pids : ProcExit(p)
    \/ \E t \in Switchers, b \in Bodies : Receive(t, b)
    \/ \E t \in Switchers : Parse(t)
    \/ \E t \in Switchers : Acquire(t)
    \/ \E t \in Switchers : Check(t)
    \/ \E t \in Switchers : ClearProc(t)
    \/ \E t \in Switchers : ClearModel(t)
    \/ \E t \in Switchers : Launch(t)
    \/ \E t \in Switchers : Probe(t)
    \/ \E t \in Switchers : GetBlocked(t)
    \/ \E t \in Switchers : PollCheck(t)
    \/ \E t \in Switchers : SetProc(t)
    \/ \E t \in Switchers : SetModel(t)
    \/ \E t \in Threads : KillEntry(t)
    \/ \E t \in Threads : KillTerm(t)
    \/ \E t \in Threads : KillWait(t)
    \/ \E t \in Threads : KillForce(t)
    \/ Interrupt
    \/ Terminated
    \/ CleanupModel
    \/ CleanupAuto

SpecShutdown == InitShutdown /\ [][NextShutdown]_vars

\* The /load_model handlers and the OS, with the readiness budget of the
\* program; the clients ask for one model.
InitTimeout == Start({ModelBody(Str(<<"model-a">>))}, max_retries)

NextSwitch ==
    \/ \E p \in DynPids : ProcBind(p)
    \/ \E p \in Pids : ProcExit(p)
    \/ \E t \in Switchers, b \in Bodies : Receive(t, b)
    \/ \E t \in Switchers : Parse(t)
    \/ \E t \in Switchers : Acquire(t)
    \/ \E t \in Switchers : Check(t)
    \/ \E t \in Switchers : ClearProc(t)
    \/ \E t \in Switchers : ClearModel(t)
    \/ \E t \in Switchers : Launch(t)
    \/ \E t \in Switchers : Probe(t)
    \/ \E t \in Switchers : GetBlocked(t)
    \/ \E t \in Switchers : PollCheck(t)
    \/ \E t \in Switchers : SetProc(t)
    \/ \E t \in Switchers : SetModel(t)
    \/ \E t \in Switchers : KillEntry(t)
    \/ \E t \in Switchers : KillTerm(t)
    \/ \E t \in Switchers : KillWait(t)
    \/ \E t \in Switchers : KillForce(t)

SpecTimeout == InitTimeout /\ [][NextSwitch]_vars

\* ---------------------------------------------------------- normalization
\* The model names of up to MaxLen segments over the two prefixes and a
\* base name.
Segments == {"mlx-community", "openai", "model-a"}
Names == UNION {[1..k -> Segments] : k \in 1..MaxLen}

InitNormalize ==
    /\ Wrapper({}, ShortRetries)
    /\ WRAPPER_AVAILABILITY_CHECK_COUNT = 0
    /\ hook = IdleHook
    /\ \E segs \in Names :
         norm = [input |-> Str(segs), name |-> Str(segs), n |-> 0]

\* start_mlx_server puts the name through its normalization; a name it
\* has produced can be given to it again.
NormalizeName ==
    /\ norm.n < 2
    /\ norm' = [norm EXCEPT !.name = Normalize(norm.name), !.n = @ + 1]
    /\ UNCHANGED <<wrapperVars, WRAPPER_AVAILABILITY_CHECK_COUNT, hook>>

NextNormalize == NormalizeName

SpecNormalize == InitNormalize /\ [][NextNormalize]_vars

\* ------------------------------------------------------- the routing hook
\* What requests.get(MLX_WRAPPER_URL + "/status", timeout=2) can yield: a
\* 200 response, another response, or a RequestException (refused
\* connection, timeout).
CheckOutcomes == {"200", "non200", "RequestException"}

\* check_wrapper_availability(), with outcome o of its GET; it returns
\* True to position ifTrue, False to position ifFalse, or ends the process
\* (os.kill(os.getppid(), SIGTERM); sys.exit(1)).
Availability(o, ifTrue, ifFalse) ==
    /\ WRAPPER_AVAILABILITY_CHECK_COUNT' =
          CASE o = "200" -> 0
            [] o = "non200" -> WRAPPER_AVAILABILITY_CHECK_COUNT
            [] o = "RequestException" -> WRAPPER_AVAILABILITY_CHECK_COUNT + 1
    /\ hook' = [pc |-> CASE o = "200" -> ifTrue
                        [] o = "non200" -> ifFalse
                        [] o = "RequestException" ->
                             IF WRAPPER_AVAILABILITY_CHECK_COUNT + 1
                                  >= WRAPPER_MAX_FAILURES
                             THEN "exited" ELSE ifFalse,
                log |-> Append(hook.log, o)]

\* ensure_model_loaded: `if not check_wrapper_availability(): return False`
EnsureCheck ==
    /\ hook.pc = "idle"
    /\ Len(hook.log) + 1 < MaxChecks
    /\ \E o \in CheckOutcomes : Availability(o, "post", "idle")
    /\ UNCHANGED <<wrapperVars, norm>>

\* requests.post(".../load_model", ..., timeout=10) and the wait for the
\* model: they end with a return, or with a RequestException, which is
\* caught.
EnsurePost ==
    /\ hook.pc = "post"
    /\ \E r \in {"returned", "RequestException"} :
         hook' = [hook EXCEPT !.pc = IF r = "returned" THEN "idle"
                                                         ELSE "recheck"]
    /\ UNCHANGED <<wrapperVars, WRAPPER_AVAILABILITY_CHECK_COUNT, norm>>

\* except RequestException: check_wrapper_availability(); return False
EnsureRecheck ==
    /\ hook.pc = "recheck"
    /\ \E o \in CheckOutcomes : Availability(o, "idle", "idle")
    /\ UNCHANGED <<wrapperVars, norm>>

InitHook == Start({}, ShortRetries)

NextHook ==
    \/ EnsureCheck
    \/ EnsurePost
    \/ EnsureRecheck

SpecHook == InitHook /\ [][NextHook]_vars

\* ================================================================ claims
\* The live processes launched for the dynamic slot.
LiveDynamic == {p \in DynPids : Alive(p)}

\* The positions of a thread that is inside `with model_lock`.
InGate(t) == th[t].pc \notin {"idle", "parse", "wait_lock"}

\* The results of switch_model that load_model answers with 200.
Success == {"Switched", "AlreadyRunning"}

\* C1: at most one process launched for the dynamic slot is alive, in every
\* reachable state (the old process is dead before the new one is launched).
C1_AtMostOneLive == Cardinality(LiveDynamic) <= 1

\* C2: right after switch_model(m) returns, current_model = m iff the result
\* was Switched or AlreadyRunning; after Failed it is the model recorded
\* before the call, or none.
C2_RecordedModel ==
    (model_lock = NoThread /\ last.result # "none") =>
        /\ (current_model = last.body.model) <=> (last.result \in Success)
        /\ last.result = "Failed" => current_model \in {last.prior, None}

\* A switch failed although a model was recorded when it began.
C2_Witness ==
    /\ model_lock = NoThread
    /\ last.result = "Failed"
    /\ last.prior # None
    /\ last.prior # last.body.model

\* C3: a switch to m that follows a successful switch to m, with the
\* recorded process still alive, returns AlreadyRunning, spawns nothing,
\* signals nothing and leaves the recorded model and handle as they are.
C3_Idempotent ==
    [][\A t \in Switchers :
         ( /\ th[t].pc = "check"
           /\ th'[t] # th[t]
           /\ last.result \in Success
           /\ last.body.model = th[t].body.model
           /\ Alive(model_process) )
         => /\ last'.result = "AlreadyRunning"
            /\ UNCHANGED <<current_model, model_process, pstate, sigs, nextPid>>
      ]_vars

\* Two switches to the same model were answered, the second with
\* AlreadyRunning: one process was started and it never got a signal.
C3_Witness ==
    /\ ncalls = 2
    /\ last.result = "AlreadyRunning"
    /\ nextPid = AutoPid + 2
    /\ Alive(model_process)
    /\ sigs[model_process] = <<>>

\* C4: whenever switch_model returns Failed, the slot is Idle (no model, no
\* handle) and the process the failed attempt launched is dead.
C4_FailedIsClean ==
    last.result = "Failed" =>
        /\ ~Alive(last.process)
        /\ model_lock = NoThread =>
             (current_model = None /\ model_process = NoProc)

\* C5: at most one request is inside the check-stop-start-record sequence,
\* it is the holder of the gate; a queued request leaves the queue only to
\* run its own sequence, which it leaves at the check only when its own
\* model is the running one, and a Switched result has launched its own
\* process.
C5_Inv ==
    /\ Cardinality({t \in Switchers : InGate(t)}) <= 1
    /\ \A t \in Switchers : InGate(t) <=> model_lock = t
    /\ last.result = "Switched" => last.process # NoProc

C5_Step ==
    \A t \in Switchers :
      /\ (th[t].pc = "wait_lock" /\ th'[t].pc # "wait_lock")
            => (th'[t].pc = "check" /\ model_lock' = t)
      /\ (th[t].pc = "check" /\ th'[t].pc = "idle")
            => (last'.result = "AlreadyRunning"
                /\ current_model = th[t].body.model
                /\ Alive(model_process))
      /\ (InGate(t) /\ th'[t].pc = "idle" /\ last'.result = "Switched")
            => (th[t].process # NoProc /\ model_process' = th[t].process)

C5_Serialized == []C5_Inv /\ [][C5_Step]_vars

\* One request is loading its model while another, for a different model,
\* waits for the gate.
C5_Witness ==
    \E t, u \in Switchers :
        /\ th[t].pc = "probe"
        /\ th[u].pc = "wait_lock"
        /\ th[t].body.model # th[u].body.model

\* C6: between operations, current_model is non-null iff model_process is
\* present and alive.
C6_ModelIffLive ==
    model_lock = NoThread =>
        ((current_model # None) <=> (model_process # NoProc /\ Alive(model_process)))

\* C7: a /status reply that reports the dynamic slot as running reports the
\* model of the last switch that completed successfully, never null.
C7_StatusConsistent ==
    (st.pc = "reply" /\ Snapshot.dynamic.status = "running") =>
        (Snapshot.dynamic.model # None /\ Snapshot.dynamic.model = lastOk)

\* What /status answers for a dynamic slot that is simply stopped.
StoppedDynamic == [status |-> "stopped", model |-> None]

\* C8: a /status reply computed while a switch is loading differs from the
\* reply for a slot that is stopped with no switch in progress.
C8_LoadingVisible ==
    (st.pc = "reply" /\ st.loading /\ Loading) =>
        Snapshot.dynamic # StoppedDynamic

\* C9: a /status request can always take its next step, whoever holds the
\* gate, and its steps change nothing but the request's own frame.
C9_Inv == ENABLED (StatusAuto \/ StatusDyn \/ StatusReply)

C9_Step == st' # st => UNCHANGED <<globalVars, osVars, switchVars>>

C9_StatusNeverWaits == []C9_Inv /\ [][C9_Step]_vars

\* /status is about to answer while a switch holds the gate in its
\* readiness wait and another request is queued behind it.
C9_Witness ==
    /\ st.pc = "reply"
    /\ GateQueued
    /\ Loading

\* The body is a JSON object with a "model" key.
HasModelKey(b) == b.isObject /\ b.inModel

\* C10: a /load_model body without a "model" key is answered with a 4xx
\* status, which no switch result is answered with; the request never waits
\* for or takes the gate, and current_model and both handles stay as they
\* are.
C10_Inv ==
    /\ \A t \in Switchers :
         th[t].pc \notin {"idle", "parse"} => HasModelKey(th[t].body)
    /\ (last.resp # 0 /\ ~HasModelKey(last.body)) =>
         (last.resp \in 400..499 /\ last.result = "none")
    /\ last.result # "none" => last.resp \notin 400..499

C10_Step ==
    \A t \in Switchers :
      (th[t].pc = "parse" /\ ~HasModelKey(th[t].body) /\ th'[t] # th[t])
        => /\ th'[t].pc = "idle"
           /\ UNCHANGED <<globalVars, osVars, lastOk>>

C10_MissingModel == []C10_Inv /\ [][C10_Step]_vars

\* C11: after a successful switch, a /status reply that reports the dynamic
\* slot as running reports the normalized form of the requested identifier
\* ("mlx-community/model-a" for "model-a").
C11_NormalizedRecorded ==
    ( /\ st.pc = "reply"
      /\ model_lock = NoThread
      /\ last.result = "Switched"
      /\ Snapshot.dynamic.status = "running" )
    => Snapshot.dynamic.model = Normalize(last.body.model)

\* C12: a switch to an identifier that normalizes to the same form as the
\* recorded model, whose process is alive, returns AlreadyRunning and
\* neither stops nor starts a process.
C12_NormalizedCompare ==
    [][\A t \in Switchers :
         ( /\ th[t].pc = "check"
           /\ th'[t] # th[t]
           /\ current_model.kind = "str"
           /\ th[t].body.model.kind = "str"
           /\ Normalize(current_model) = Normalize(th[t].body.model)
           /\ Alive(model_process) )
         => /\ th'[t].pc = "idle"
            /\ last'.result = "AlreadyRunning"
            /\ UNCHANGED <<pstate, sigs, nextPid>>
      ]_vars

\* C13: once the wrapper process has exited, however its shutdown began
\* and wherever the switches were, no process it started is alive (unless
\* cleanup was refused the right to signal one).
C13_NoOrphans ==
    (th[Main].pc = "gone" /\ ~th[Main].denied) =>
        \A p \in Pids : ~Alive(p)

\* Death of the launched process is the outcome of the readiness wait
\* whenever the wait ends with the process dead.
C14_Step ==
    \A t \in Switchers :
      ( /\ th[t].pc \in {"probe", "get_blocked", "pollcheck"}
        /\ ~Alive(th[t].process)
        /\ th'[t].pc \notin {"probe", "get_blocked", "pollcheck", "k_entry"} )
      => (th'[t].pc = "idle" /\ last'.result = "Failed")

C14_Inv ==
    (model_lock = NoThread /\ last.msg = "died") =>
        (last.result = "Failed" /\ StatusOf(model_process) = "stopped")

\* C14: when the launched process exits before a readiness success, the
\* switch returns Failed, and /status then shows the dynamic slot stopped.
C14_DeathFails == []C14_Inv /\ [][C14_Step]_vars

Terms(log) == Len(SelectSeq(log, LAMBDA x : x = "TERM"))

\* While a switch stops the recorded process, it has launched nothing, and
\* the process it stops is the recorded one.
C16_Inv ==
    \A t \in Switchers :
      th[t].kret = "stop" =>
        /\ th[t].process = NoProc
        /\ th[t].kproc = th[t].stopped
        /\ model_process = th[t].stopped

\* At the launch the slot is empty and the one stop of the old process is
\* over: it got one SIGTERM at most and, unless a killpg was refused, it is
\* dead.  At the successful return the slot holds the new model and the new
\* process, which /status reports as running if it is alive.
C16_Step ==
    \A t \in Switchers :
      /\ (th[t].pc = "launch" /\ th'[t].pc = "probe") =>
            /\ model_process = NoProc /\ current_model = None
            /\ th[t].kproc = NoProc
            /\ th[t].stopped # NoProc =>
                 /\ Terms(sigs'[th[t].stopped]) <= 1
                 /\ ~th[t].denied => ~Alive(th[t].stopped)
      /\ (th[t].pc = "set_model" /\ th'[t].pc = "idle") =>
            /\ current_model' = th[t].body.model
            /\ model_process' = th[t].process
            /\ th[t].process # th[t].stopped
            /\ Alive(th[t].process) => StatusOf(model_process') = "running"

AfterKill == {"clear_proc", "idle", "c_auto", "gone"}

\* The positions inside kill_process.
InKill == {"k_entry", "k_term", "k_wait", "k_force"}

\* Thread t takes a step (the end of the process is a step of Main).
Moved(t) == th'[t] # th[t] /\ (th'[t].pc = "gone" => t = Main)

\* C17: kill_process on an absent handle, or on one whose process has
\* exited, sends no signal, changes no process and returns to its caller;
\* when the process is gone by the time of the signal, kill_process goes on
\* or returns to its caller, never anywhere else.
C17_Idempotent ==
    [][\A t \in Threads :
         /\ (th[t].pc = "k_entry" /\ ~Alive(th[t].kproc) /\ Moved(t))
               => (th'[t].pc \in AfterKill /\ UNCHANGED <<sigs, pstate>>)
         /\ (th[t].pc \in InKill /\ ~Alive(th[t].kproc) /\ Moved(t))
               => (th'[t].pc \in InKill \cup AfterKill /\ pstate' = pstate)
      ]_vars

\* cleanup has called kill_process on the handle of a dynamic server that
\* had exited, and is back: the server got no signal.
C17_Witness ==
    /\ th[Main].pc = "c_auto"
    /\ model_process # NoProc
    /\ pstate[model_process] = "dead"
    /\ sigs[model_process] = <<>>

\* The steps of handler thread t inside `with model_lock`.
HolderStep(t) ==
    \/ Check(t) \/ ClearProc(t) \/ ClearModel(t) \/ Launch(t) \/ Probe(t)
    \/ GetBlocked(t) \/ PollCheck(t) \/ SetProc(t) \/ SetModel(t)
    \/ KillEntry(t) \/ KillTerm(t) \/ KillWait(t) \/ KillForce(t)

\* C18: a switch that holds the gate can always take its next step (so
\* that it reaches one of its outcomes within the readiness budget and
\* releases the gate).
C18_HolderProceeds ==
    \A t \in Switchers : InGate(t) => ENABLED HolderStep(t)

\* C19: whatever fails inside switch_model, the request is answered from
\* switch_model's return value: the result is Switched, AlreadyRunning or
\* Failed, and Failed carries a message and is answered with 500.
C19_Inv ==
    /\ \A t \in Switchers : InGate(t) <=> model_lock = t
    /\ last.result = "Failed" =>
         (last.resp = 500 /\ last.msg \in {"launch", "died", "timeout", "error"})
    /\ last.result \in Success => last.resp = 200

C19_Step ==
    \A t \in Switchers :
      (InGate(t) /\ ~InGate(t)') =>
        /\ th'[t].pc = "idle"
        /\ last'.body = th[t].body
        /\ last'.result \in Success \cup {"Failed"}
        /\ th[t].body.model.kind # "str" => last'.result = "Failed"

C20_Inv ==
    /\ \A p \in Pids : sigs[p] \in {<<>>, <<"TERM">>, <<"TERM", "KILL">>}
    /\ \A t \in Switchers :
         /\ th[t].pc = "k_wait" =>
               (th[t].kpolls < GracePolls /\ sigs[th[t].kproc] = <<"TERM">>)
         /\ th[t].pc = "k_force" =>
               (th[t].kpolls = GracePolls /\ sigs[th[t].kproc] = <<"TERM">>)

\* A poll that finds the process dead ends kill_process; SIGKILL is sent
\* from the end of the grace loop, to a process that is alive.
C20_Step ==
    \A t \in Switchers :
      /\ (th[t].pc \in {"k_wait", "k_force"} /\ ~Alive(th[t].kproc)
            /\ th'[t] # th[t])
          => (th'[t].pc \in AfterKill /\ sigs' = sigs)
      /\ (th[t].pc \in InKill /\ sigs'[th[t].kproc] # sigs[th[t].kproc]) =>
            \/ th[t].pc = "k_term" /\ th'[t].pc = "k_wait"
            \/ /\ th[t].pc = "k_force"
               /\ Alive(th[t].kproc)
               /\ sigs'[th[t].kproc] = <<"TERM", "KILL">>

\* C20: kill_process sends SIGTERM to the group first, and SIGKILL only
\* when the process is still alive after the 5 polls of the grace loop.
C20_TwoPhase == []C20_Inv /\ [][C20_Step]_vars

\* A process outlived the grace loop and was killed, while another was
\* stopped by SIGTERM alone.
C20_Witness ==
    \E p, q \in DynPids :
        /\ sigs[p] = <<"TERM", "KILL">>
        /\ sigs[q] = <<"TERM">>
        /\ pstate[q] = "dead"

\* The positions of the readiness wait of start_mlx_server.
InWait == {"probe", "get_blocked", "pollcheck"}

\* C21: the readiness wait ends in exactly one of three ways: Ready, from
\* an attempt answered 200; ProcessDied, from the check between attempts
\* finding the process dead; TimedOut, after max_retries (60) attempts.
C21_ThreeOutcomes ==
    [][\A t \in Switchers :
         (th[t].pc \in InWait /\ th'[t].pc \notin InWait) =>
            \/ th[t].pc = "probe" /\ th'[t].pc = "set_proc"
            \/ /\ th[t].pc = "pollcheck"
               /\ ~Alive(th[t].process)
               /\ th'[t].pc = "idle" /\ last'.msg = "died"
            \/ /\ th[t].pc = "probe"
               /\ th[t].retries = max_retries
               /\ th'[t].pc = "k_entry" /\ th'[t].kret = "timeout"
      ]_vars

\* A switch whose stop was refused is never without a next step, and once
\* such a request is answered and nobody is in the sequence, the gate is
\* free.
C22_Inv ==
    /\ \A t \in Switchers :
         (th[t].denied /\ th[t].pc \in {"clear_proc", "clear_model", "launch"})
            => ENABLED HolderStep(t)
    /\ (last.denied /\ \A t \in Switchers : ~InGate(t)) => model_lock = NoThread

\* A killpg of the stop that is refused (the process is alive and gets no
\* signal) changes nothing and returns to switch_model, which clears the
\* handle, then the model, then launches.
C22_Step ==
    \A t \in Switchers :
      /\ ( /\ th[t].pc \in {"k_term", "k_force"} /\ th[t].kret = "stop"
           /\ Alive(th[t].kproc)
           /\ th'[t] # th[t] /\ sigs' = sigs /\ pstate' = pstate )
         => (th'[t].pc = "clear_proc" /\ th'[t].denied)
      /\ (th[t].denied /\ th[t].pc = "clear_proc" /\ th'[t] # th[t])
         => (model_process' = NoProc /\ th'[t].pc = "clear_model")
      /\ (th[t].denied /\ th[t].pc = "clear_model" /\ th'[t] # th[t])
         => (current_model' = None /\ model_process' = NoProc
             /\ th'[t].pc = "launch")
      /\ (th[t].denied /\ th[t].pc = "launch" /\ th'[t] # th[t])
         => \/ th'[t].pc = "probe" /\ th'[t].process = nextPid
            \/ th'[t].pc = "idle" /\ last'.msg = "launch"
      /\ (th[t].denied /\ th'[t].pc = "idle") => model_lock' = NoThread

\* C22: when killpg is refused while the running dynamic process is being
\* stopped, the refusal is only logged: the handle and the model are
\* cleared, the same switch launches the new model, and the gate is free
\* for the next request once it has returned.
C22_DeniedProceeds == []C22_Inv /\ [][C22_Step]_vars

\* A switch succeeded although the stop of the running process was
\* refused: that process is alive, without a signal, beside the new one.
C22_Witness ==
    /\ last.result = "Switched"
    /\ last.denied
    /\ last.prior # None
    /\ model_process = last.process
    /\ \E p \in DynPids :
         p # model_process /\ Alive(p) /\ sigs[p] = <<>>

\* The number of times "mlx-community/" occurs in a name.
PrefixCount(segs) ==
    Cardinality({i \in 1..(Len(segs) - 1) : segs[i] = "mlx-community"})

\* C23: a normalized name starts with "mlx-community/" and contains it
\* once; a name that starts with it is left as it is; normalizing a
\* normalized name changes nothing.
C23_Canonical ==
    norm.n >= 1 =>
        /\ StartsWith(norm.name.segs, <<"mlx-community">>)
        /\ PrefixCount(norm.name.segs) = 1
        /\ StartsWith(norm.input.segs, <<"mlx-community">>) =>
              norm.name = norm.input
        /\ norm.name = Normalize(norm.input)

\* The last WRAPPER_MAX_FAILURES checks of a log all found the wrapper
\* unreachable.
LastChecksFailed(log) ==
    /\ Len(log) >= WRAPPER_MAX_FAILURES
    /\ \A i \in (Len(log) - WRAPPER_MAX_FAILURES + 1)..Len(log) :
         log[i] = "RequestException"

\* C24: an availability check ends the hook's process exactly when it is
\* the third in a row to find the wrapper unreachable; a check that got a
\* response in between starts the count again.
C24_ThreeInARow ==
    [][hook'.log # hook.log =>
         ((hook'.pc = "exited") <=> LastChecksFailed(hook'.log))]_vars

\* C25: a 200 is taken as readiness only when the launched process itself
\* is the listener that answered, and at a Switched return the recorded
\* handle is that of the launched process, which is alive.
C25_OwnReadiness ==
    [][\A t \in Switchers :
         /\ (th[t].pc = "probe" /\ th'[t].pc = "set_proc")
               => pstate[th[t].process] = "serving"
         /\ (th[t].pc = "set_model" /\ th'[t].pc = "idle")
               => /\ model_process' = th[t].process
                  /\ pstate'[th[t].process] \in {"starting", "serving"}
      ]_vars

====
